---------------------------- MODULE Spec2Model ----------------------------
(***************************************************************************)
(* A model of the conan-wrapper crate (src/src/lib.rs, src/src/cargo.rs):  *)
(* the install-argument builder and its compilation to a command line,     *)
(* the parser of `conan remote list --raw`, the dependency lookup of the   *)
(* build-info document and the cargo -> conan platform vocabulary.         *)
(*                                                                         *)
(* Rust values are modelled as follows.  Option<T>: None is << >> and      *)
(* Some(x) is <<x>>.  Vec<T>: a sequence.  HashMap<String,String>: a       *)
(* function whose domain is the key set; its iteration order is not fixed  *)
(* by the code and is an arbitrary permutation of the keys.  String: a     *)
(* TLA+ string, except the text that the remote-list parser scans, which   *)
(* is a sequence of one-character strings.                                 *)
(***************************************************************************)
EXTENDS Integers, Sequences, FiniteSets, TLC

VARIABLES
    \* InstallArgumentsBuilder / InstallArguments / to_commandline_arguments
    builder,      \* Option<InstallArgumentsBuilder>: None once build() consumed it
    last_set,     \* history: per setter, the Option of the last argument passed
    ncalls,       \* history: number of setter calls made so far
    arguments,    \* Option<InstallArguments>: the value build() returned
    result,       \* Option<Vec<String>>: last to_commandline_arguments() value
    \* Conan::get_remote_list
    stdout,       \* captured output of `conan remote list --raw`
    remote_list,  \* None before the call, Some(return value) after it
    \* Conan::add_remote / Conan::remove_remote
    spawned,      \* None, or Some of the last call: its inputs, the vector it
                  \* built, the arguments given to the Command, and the outcome
    \* ConanBuildInfo::find_dependency
    dependencies, \* ConanBuildInfo.dependencies
    found,        \* None before a call, Some([name, ret]) after find_dependency(name)
    \* cargo.rs
    os_table,     \* CARGO_OS_TO_CONAN_OS
    arch_table,   \* CARGO_ARCH_TO_CONAN_ARCH
    os_call,      \* None, or Some([input, output]) of the last cargo_os_to_conan_os
    arch_call,    \* the same for cargo_arch_to_conan_arch
    profile_call  \* the same for cargo_profile_to_conan_build_type

installVars == <<builder, last_set, ncalls, arguments, result>>

remoteVars == <<stdout, remote_list, spawned>>

buildInfoVars == <<dependencies, found>>

cargoVars == <<os_table, arch_table, os_call, arch_call, profile_call>>

vars == <<installVars, remoteVars, buildInfoVars, cargoVars>>

None == << >>

Some(x) == <<x>>

(***************************************************************************)
(* Bounds of the model.                                                    *)
(***************************************************************************)
MaxGenerators == 3

MaxBuildConfigurations == 2

MaxSetterCalls == 3

MaxVariedFields == 1

MaxLines == 3

MaxLineChunks == 6

MaxDependencies == 3

(***************************************************************************)
(* Input domains.  The caller-supplied strings are ordinary names: none of *)
(* them is one of the flag literals the compiler emits.                    *)
(***************************************************************************)
RECURSIVE Concat(_)
Concat(ss) == IF ss = << >> THEN << >> ELSE Head(ss) \o Concat(Tail(ss))

SeqsUpTo(S, n) == UNION {[1..k -> S] : k \in 0..n}

KeyOrders(S) == {p \in [1..Cardinality(S) -> S] : \A k \in S : \E i \in DOMAIN p : p[i] = k}

InstallTargets ==
    { [kind |-> "ConanFile", path |-> "conanfile.txt", reference |-> None],
      [kind |-> "ConanFile", path |-> "conanfile.txt", reference |-> Some("pkg/1.0@user/dev")],
      [kind |-> "Package", reference |-> "zlib/1.2.11@_/_"] }

InstallFolders == {"build", "temp"}

GeneratorNames == {"cmake", "json"}

BuildConfigurations ==
    { [kind |-> "All"], [kind |-> "Never"], [kind |-> "Missing"],
      [kind |-> "Cascade"], [kind |-> "Outdated"],
      [kind |-> "Package", pattern |-> "zlib"] }

MapKeys == {"os", "arch"}

MapValues == {"x", "y"}

StringMaps == UNION {[D -> MapValues] : D \in SUBSET MapKeys}

ProfileNames == {"android", "gcc"}

RemoteNames == {"conan-center", "local"}

MapFields == {"envs", "envs_build", "options", "options_build", "settings", "settings_build"}

SetterNames ==
    {"generators", "no_imports", "build_configurations", "profile",
     "profile_build", "remote", "check_update"} \cup MapFields

(***************************************************************************)
(* InstallArgumentsBuilder (lib.rs 331-439).                               *)
(***************************************************************************)
new(install_target, install_folder) ==
    [ install_target |-> install_target,
      generators |-> << >>,
      install_folder |-> install_folder,
      no_imports |-> FALSE,
      build_configurations |-> << [kind |-> "All"] >>,
      envs |-> << >>,
      envs_build |-> << >>,
      options |-> << >>,
      options_build |-> << >>,
      profile |-> None,
      profile_build |-> None,
      remote |-> None,
      settings |-> << >>,
      settings_build |-> << >>,
      check_update |-> FALSE ]

generators_appending(self, value) == [self EXCEPT !.generators = @ \o value]

generators(self, value) == [self EXCEPT !.generators = value]

no_imports(self, value) == [self EXCEPT !.no_imports = value]

build_configurations(self, value) == [self EXCEPT !.build_configurations = value]

envs(self, value) == [self EXCEPT !.envs = value]

envs_build(self, value) == [self EXCEPT !.envs_build = value]

options(self, value) == [self EXCEPT !.options = value]

options_build(self, value) == [self EXCEPT !.options_build = value]

profile(self, value) == [self EXCEPT !.profile = Some(value)]

profile_build(self, value) == [self EXCEPT !.profile_build = Some(value)]

remote(self, value) == [self EXCEPT !.remote = Some(value)]

settings(self, value) == [self EXCEPT !.settings = value]

settings_build(self, value) == [self EXCEPT !.settings_build = value]

check_update(self, value) == [self EXCEPT !.check_update = value]

build(self) ==
    [ install_target |-> self.install_target,
      generators |-> self.generators,
      install_folder |-> self.install_folder,
      no_imports |-> self.no_imports,
      build_configurations |-> self.build_configurations,
      envs |-> self.envs,
      envs_build |-> self.envs_build,
      options |-> self.options,
      options_build |-> self.options_build,
      profile |-> self.profile,
      profile_build |-> self.profile_build,
      remote |-> self.remote,
      settings |-> self.settings,
      settings_build |-> self.settings_build,
      check_update |-> self.check_update ]

(***************************************************************************)
(* InstallArguments::to_commandline_arguments (lib.rs 211-310), one        *)
(* operator per block of the function.  `order` gives, for each map field, *)
(* the order in which the HashMap iterator yields its keys.                *)
(***************************************************************************)
TargetTokens_dropping_reference(install_target) ==
    IF install_target.kind = "ConanFile"
    THEN << install_target.path >>
    ELSE << install_target.reference >>

TargetTokens(install_target) ==
    IF install_target.kind = "ConanFile"
    THEN << install_target.path >> \o install_target.reference
    ELSE << install_target.reference >>

GeneratorTokens_reversed(gens) ==
    Concat([i \in 1..Len(gens) |-> << "-g", gens[Len(gens) + 1 - i] >>])

GeneratorTokens(gens) ==
    Concat([i \in 1..Len(gens) |-> << "-g", gens[i] >>])

BuildConfigurationTokens_all_valued(build_configuration) ==
    << "--build" >> \o
    CASE build_configuration.kind = "All" -> << "all" >>
      [] build_configuration.kind = "Never" -> << "never" >>
      [] build_configuration.kind = "Missing" -> << "missing" >>
      [] build_configuration.kind = "Cascade" -> << "cascade" >>
      [] build_configuration.kind = "Outdated" -> << "outdated" >>
      [] build_configuration.kind = "Package" -> << build_configuration.pattern >>

BuildConfigurationTokens(build_configuration) ==
    << "--build" >> \o
    CASE build_configuration.kind = "All" -> << >>
      [] build_configuration.kind = "Never" -> << "never" >>
      [] build_configuration.kind = "Missing" -> << "missing" >>
      [] build_configuration.kind = "Cascade" -> << "cascade" >>
      [] build_configuration.kind = "Outdated" -> << "outdated" >>
      [] build_configuration.kind = "Package" -> << build_configuration.pattern >>

BuildTokens(build_confs) ==
    Concat([i \in 1..Len(build_confs) |-> BuildConfigurationTokens(build_confs[i])])

\* format!("{}={}", key, value)
FormatEntry(key, value) == key \o "=" \o value

MapTokens_first_entry_only(flag, map, keys) ==
    IF keys = << >> THEN << >> ELSE << flag, FormatEntry(keys[1], map[keys[1]]) >>

MapTokens(flag, map, keys) ==
    Concat([i \in 1..Len(keys) |-> << flag, FormatEntry(keys[i], map[keys[i]]) >>])

OptionTokens(flag, opt) == IF opt # None THEN << flag, opt[1] >> ELSE << >>

FlagToken(flag, set) == IF set THEN << flag >> ELSE << >>

to_commandline_arguments_settings_first(self, order) ==
    << "install" >>
    \o TargetTokens(self.install_target)
    \o GeneratorTokens(self.generators)
    \o << "-if", self.install_folder >>
    \o FlagToken("--no-imports", self.no_imports)
    \o BuildTokens(self.build_configurations)
    \o MapTokens("-e", self.envs, order.envs)
    \o MapTokens("-e:b", self.envs_build, order.envs_build)
    \o MapTokens("-o", self.options, order.options)
    \o MapTokens("-o:b", self.options_build, order.options_build)
    \o MapTokens("-s", self.settings, order.settings)
    \o MapTokens("-s:b", self.settings_build, order.settings_build)
    \o OptionTokens("-pr", self.profile)
    \o OptionTokens("-pr:b", self.profile_build)
    \o OptionTokens("-r", self.remote)
    \o FlagToken("--update", self.check_update)

to_commandline_arguments(self, order) ==
    << "install" >>
    \o TargetTokens(self.install_target)
    \o GeneratorTokens(self.generators)
    \o << "-if", self.install_folder >>
    \o FlagToken("--no-imports", self.no_imports)
    \o BuildTokens(self.build_configurations)
    \o MapTokens("-e", self.envs, order.envs)
    \o MapTokens("-e:b", self.envs_build, order.envs_build)
    \o MapTokens("-o", self.options, order.options)
    \o MapTokens("-o:b", self.options_build, order.options_build)
    \o OptionTokens("-pr", self.profile)
    \o OptionTokens("-pr:b", self.profile_build)
    \o OptionTokens("-r", self.remote)
    \o MapTokens("-s", self.settings, order.settings)
    \o MapTokens("-s:b", self.settings_build, order.settings_build)
    \o FlagToken("--update", self.check_update)

\* The orders in which the six HashMaps of `self` may be iterated.
IterationOrders(self) ==
    [ envs : KeyOrders(DOMAIN self.envs),
      envs_build : KeyOrders(DOMAIN self.envs_build),
      options : KeyOrders(DOMAIN self.options),
      options_build : KeyOrders(DOMAIN self.options_build),
      settings : KeyOrders(DOMAIN self.settings),
      settings_build : KeyOrders(DOMAIN self.settings_build) ]


(***************************************************************************)
(* Idle values: a specification that does not exercise a component keeps   *)
(* that component's variables at these values.                             *)
(***************************************************************************)
NeverSet ==
    [f \in SetterNames \cup {"install_target", "install_folder"} |-> None]

CARGO_OS_TO_CONAN_OS ==
    [k \in {"windows", "linux", "macos", "android", "ios", "freebsd"} |->
        CASE k = "windows" -> "Windows"
          [] k = "linux" -> "Linux"
          [] k = "macos" -> "Macos"
          [] k = "android" -> "Android"
          [] k = "ios" -> "iOS"
          [] k = "freebsd" -> "FreeBSD"]

CARGO_ARCH_TO_CONAN_ARCH ==
    [k \in {"powerpc", "powerpc64", "arm", "aarch64"} |->
        CASE k = "powerpc" -> "ppc32"
          [] k = "powerpc64" -> "ppc64"
          [] k = "arm" -> "armv7"
          [] k = "aarch64" -> "armv8"]

IdleInstall ==
    /\ builder = None
    /\ last_set = NeverSet
    /\ ncalls = 0
    /\ arguments = None
    /\ result = None

IdleRemote ==
    /\ stdout = [utf8 |-> TRUE, text |-> << >>]
    /\ remote_list = None
    /\ spawned = None

IdleBuildInfo ==
    /\ dependencies = << >>
    /\ found = None

IdleCargo ==
    /\ os_table = CARGO_OS_TO_CONAN_OS
    /\ arch_table = CARGO_ARCH_TO_CONAN_ARCH
    /\ os_call = None
    /\ arch_call = None
    /\ profile_call = None

(***************************************************************************)
(* The builder state machine: new, setter calls, build, compile.           *)
(* The setters' arguments are drawn from small sample sets.                *)
(***************************************************************************)
GeneratorArgs == { << >>, << "json" >>, << "cmake", "json" >> }

BuildConfigurationArgs ==
    { << >>, << [kind |-> "Missing"] >>, << [kind |-> "Missing"], [kind |-> "Outdated"] >> }

MapArgs == { << >>, [k \in {"os"} |-> "x"], [k \in {"os", "arch"} |-> IF k = "os" THEN "y" ELSE "x"] }

InitInstall ==
    /\ \E install_target \in InstallTargets, install_folder \in InstallFolders :
          /\ builder = Some(new(install_target, install_folder))
          /\ last_set = [NeverSet EXCEPT !["install_target"] = Some(install_target),
                                         !["install_folder"] = Some(install_folder)]
    /\ ncalls = 0
    /\ arguments = None
    /\ result = None
    /\ IdleRemote /\ IdleBuildInfo /\ IdleCargo

\* A setter call: the builder is replaced by the setter's value and the
\* call is recorded in the history variables.
SetterCall(name, value, after) ==
    /\ builder # None
    /\ ncalls < MaxSetterCalls
    /\ builder' = Some(after)
    /\ last_set' = [last_set EXCEPT ![name] = Some(value)]
    /\ ncalls' = ncalls + 1
    /\ UNCHANGED <<arguments, result, remoteVars, buildInfoVars, cargoVars>>

CallGenerators ==
    \E value \in GeneratorArgs :
        SetterCall("generators", value, generators(builder[1], value))

CallNoImports ==
    \E value \in BOOLEAN :
        SetterCall("no_imports", value, no_imports(builder[1], value))

CallBuildConfigurations ==
    \E value \in BuildConfigurationArgs :
        SetterCall("build_configurations", value, build_configurations(builder[1], value))

CallEnvs ==
    \E value \in MapArgs : SetterCall("envs", value, envs(builder[1], value))

CallEnvsBuild ==
    \E value \in MapArgs : SetterCall("envs_build", value, envs_build(builder[1], value))

CallOptions ==
    \E value \in MapArgs : SetterCall("options", value, options(builder[1], value))

CallOptionsBuild ==
    \E value \in MapArgs :
        SetterCall("options_build", value, options_build(builder[1], value))

CallProfile ==
    \E value \in ProfileNames : SetterCall("profile", value, profile(builder[1], value))

CallProfileBuild ==
    \E value \in ProfileNames :
        SetterCall("profile_build", value, profile_build(builder[1], value))

CallRemote ==
    \E value \in RemoteNames : SetterCall("remote", value, remote(builder[1], value))

CallSettings ==
    \E value \in MapArgs : SetterCall("settings", value, settings(builder[1], value))

CallSettingsBuild ==
    \E value \in MapArgs :
        SetterCall("settings_build", value, settings_build(builder[1], value))

CallCheckUpdate ==
    \E value \in BOOLEAN :
        SetterCall("check_update", value, check_update(builder[1], value))

\* build(self) moves the builder into the InstallArguments it returns.
CallBuild ==
    /\ builder # None
    /\ arguments' = Some(build(builder[1]))
    /\ builder' = None
    /\ UNCHANGED <<last_set, ncalls, result, remoteVars, buildInfoVars, cargoVars>>

\* to_commandline_arguments(&self): the maps are iterated in some order.
CallToCommandlineArguments ==
    /\ arguments # None
    /\ \E order \in IterationOrders(arguments[1]) :
          result' = Some(to_commandline_arguments(arguments[1], order))
    /\ UNCHANGED <<builder, last_set, ncalls, arguments, remoteVars, buildInfoVars, cargoVars>>

NextInstall ==
    \/ CallGenerators
    \/ CallNoImports
    \/ CallBuildConfigurations
    \/ CallEnvs
    \/ CallEnvsBuild
    \/ CallOptions
    \/ CallOptionsBuild
    \/ CallProfile
    \/ CallProfileBuild
    \/ CallRemote
    \/ CallSettings
    \/ CallSettingsBuild
    \/ CallCheckUpdate
    \/ CallBuild
    \/ CallToCommandlineArguments

SpecInstall == InitInstall /\ [][NextInstall]_vars

(***************************************************************************)
(* The compiler on directly constructed InstallArguments (the struct and   *)
(* its fields are pub).  The inputs are the records that differ in at most *)
(* MaxVariedFields fields from a base record: the record of a fresh        *)
(* builder, or a record in which every optional group is present.          *)
(***************************************************************************)
DefaultArguments(install_target) == build(new(install_target, "build"))

FullArguments(install_target) ==
    [ install_target |-> install_target,
      generators |-> << "cmake", "json" >>,
      install_folder |-> "build",
      no_imports |-> TRUE,
      build_configurations |-> << [kind |-> "Missing"], [kind |-> "Package", pattern |-> "zlib"] >>,
      envs |-> [k \in {"os"} |-> "x"],
      envs_build |-> [k \in {"arch"} |-> "y"],
      options |-> [k \in {"arch"} |-> "x"],
      options_build |-> [k \in {"os"} |-> "y"],
      profile |-> Some("android"),
      profile_build |-> Some("gcc"),
      remote |-> Some("conan-center"),
      settings |-> [k \in {"os"} |-> "y"],
      settings_build |-> [k \in {"arch"} |-> "x"],
      check_update |-> TRUE ]

BaseArguments ==
    {DefaultArguments(t) : t \in InstallTargets} \cup {FullArguments(t) : t \in InstallTargets}

VariedFieldNames == SetterNames \cup {"install_folder"}

FieldValues(f) ==
    CASE f = "generators" -> SeqsUpTo(GeneratorNames, MaxGenerators)
      [] f = "install_folder" -> InstallFolders
      [] f = "build_configurations" -> SeqsUpTo(BuildConfigurations, MaxBuildConfigurations)
      [] f \in {"no_imports", "check_update"} -> BOOLEAN
      [] f \in MapFields -> StringMaps
      [] f \in {"profile", "profile_build"} -> {None} \cup {Some(p) : p \in ProfileNames}
      [] f = "remote" -> {None} \cup {Some(r) : r \in RemoteNames}

\* A variation: a field and the value it is given.
Variations == UNION { {<< f, v >> : v \in FieldValues(f)} : f \in VariedFieldNames }

RECURSIVE ApplyVariations(_, _)
ApplyVariations(a, vs) ==
    IF vs = << >>
    THEN a
    ELSE ApplyVariations([a EXCEPT ![vs[1][1]] = vs[1][2]], Tail(vs))

InitCompile ==
    /\ builder = None
    /\ last_set = NeverSet
    /\ ncalls = 0
    /\ \E base \in BaseArguments, k \in 0..MaxVariedFields :
          \E vs \in [1..k -> Variations] :
              arguments = Some(ApplyVariations(base, vs))
    /\ result = None
    /\ IdleRemote /\ IdleBuildInfo /\ IdleCargo

NextCompile == CallToCommandlineArguments

SpecCompile == InitCompile /\ [][NextCompile]_vars

(***************************************************************************)
(* Vocabulary of the properties of the compiled vector.                    *)
(***************************************************************************)
\* The flag literals, and the position of each flag's group in section 4.1
\* (the target is group 1).
FlagTokens ==
    {"-g", "-if", "--no-imports", "--build", "-e", "-e:b", "-o", "-o:b",
     "-pr", "-pr:b", "-r", "-s", "-s:b", "--update"}

GroupRank(flag) ==
    CASE flag = "-g" -> 2
      [] flag = "-if" -> 3
      [] flag = "--no-imports" -> 4
      [] flag = "--build" -> 5
      [] flag = "-e" -> 6
      [] flag = "-e:b" -> 7
      [] flag = "-o" -> 8
      [] flag = "-o:b" -> 9
      [] flag = "-pr" -> 10
      [] flag = "-pr:b" -> 11
      [] flag = "-r" -> 12
      [] flag = "-s" -> 13
      [] flag = "-s:b" -> 14
      [] flag = "--update" -> 15

MapFlag(f) ==
    CASE f = "envs" -> "-e"
      [] f = "envs_build" -> "-e:b"
      [] f = "options" -> "-o"
      [] f = "options_build" -> "-o:b"
      [] f = "settings" -> "-s"
      [] f = "settings_build" -> "-s:b"

Positions(out, token) == {i \in 1..Len(out) : out[i] = token}

PairPositions(out, flag, value) ==
    {i \in 1..(Len(out) - 1) : out[i] = flag /\ out[i + 1] = value}

Has(out, token) == Positions(out, token) # {}

\* The k-th smallest element of a finite set of integers.
Nth(P, k) == CHOOSE i \in P : Cardinality({j \in P : j < i}) = k - 1

RECURSIVE Sum(_, _)
Sum(f, D) == IF D = {} THEN 0 ELSE LET d == CHOOSE d \in D : TRUE IN f[d] + Sum(f, D \ {d})

\* The target tokens of section 4.1 step 1.
Step1Tokens(a) ==
    IF a.install_target.kind = "Package"
    THEN << a.install_target.reference >>
    ELSE IF a.install_target.reference = None
         THEN << a.install_target.path >>
         ELSE << a.install_target.path, a.install_target.reference[1] >>

\* The number of tokens steps 1-11 prescribe for `a`.
StepsTokenCount(a) ==
    Len(Step1Tokens(a))
    + 2 * Len(a.generators)
    + 2
    + (IF a.no_imports THEN 1 ELSE 0)
    + Sum([i \in 1..Len(a.build_configurations) |->
              IF a.build_configurations[i].kind = "All" THEN 1 ELSE 2],
          1..Len(a.build_configurations))
    + 2 * Sum([f \in MapFields |-> Cardinality(DOMAIN a[f])], MapFields)
    + 2 * (Len(a.profile) + Len(a.profile_build) + Len(a.remote))
    + (IF a.check_update THEN 1 ELSE 0)

\* The tokens steps 1-11 may emit for `a`.
StepsTokenSet(a) ==
    {Step1Tokens(a)[i] : i \in 1..Len(Step1Tokens(a))}
    \cup FlagTokens
    \cup {a.generators[i] : i \in 1..Len(a.generators)}
    \cup {a.install_folder}
    \cup {"never", "missing", "cascade", "outdated"}
    \cup {a.build_configurations[i].pattern :
             i \in {j \in 1..Len(a.build_configurations) :
                        a.build_configurations[j].kind = "Package"}}
    \cup UNION {{k \o "=" \o a[f][k] : k \in DOMAIN a[f]} : f \in MapFields}
    \cup {a.profile[i] : i \in 1..Len(a.profile)}
    \cup {a.profile_build[i] : i \in 1..Len(a.profile_build)}
    \cup {a.remote[i] : i \in 1..Len(a.remote)}

\* The tokens of `out` after its first `skip` tokens are exactly those of
\* steps 1-11 for `a`, beginning with the target, and the optional tokens
\* are present exactly when the flag is set or the value present.
ExactlyTheStepTokens(out, a, skip) ==
    /\ Len(out) = skip + StepsTokenCount(a)
    /\ \A i \in (skip + 1)..Len(out) : out[i] \in StepsTokenSet(a)
    /\ SubSeq(out, skip + 1, skip + Len(Step1Tokens(a))) = Step1Tokens(a)
    /\ Has(out, "--no-imports") <=> a.no_imports
    /\ Has(out, "--update") <=> a.check_update
    /\ Has(out, "-pr") <=> a.profile # None
    /\ Has(out, "-pr:b") <=> a.profile_build # None
    /\ Has(out, "-r") <=> a.remote # None
    /\ a.profile # None => PairPositions(out, "-pr", a.profile[1]) # {}
    /\ a.profile_build # None => PairPositions(out, "-pr:b", a.profile_build[1]) # {}
    /\ a.remote # None => PairPositions(out, "-r", a.remote[1]) # {}

(***************************************************************************)
(* C1 (as claimed): the returned vector consists of exactly the tokens of  *)
(* steps 1-11 and begins with the target tokens.  The code pushes the      *)
(* subcommand `install` before the target, so this fails.                  *)
(***************************************************************************)
C1_BeginsWithTarget ==
    result # None => ExactlyTheStepTokens(result[1], arguments[1], 0)

(***************************************************************************)
(* C1 (amended): the returned vector is the literal token `install`        *)
(* followed by exactly the tokens of steps 1-11 and no other token: after  *)
(* `install` come the target tokens (for ConanFile the path, then the      *)
(* reference only if present; for Package the reference), and each of      *)
(* `--no-imports`, `-pr <profile>`, `-pr:b <build-profile>`, `-r <remote>` *)
(* and `--update` is present exactly when its flag is set or its value is  *)
(* present.                                                                *)
(***************************************************************************)
C1_InstallThenStepTokens ==
    result # None =>
        /\ result[1][1] = "install"
        /\ ExactlyTheStepTokens(result[1], arguments[1], 1)

C1_Witness ==
    /\ result # None
    /\ arguments[1].install_target.kind = "ConanFile"
    /\ arguments[1].install_target.reference # None
    /\ arguments[1].profile # None
    /\ arguments[1].remote = None
    /\ arguments[1].check_update

(***************************************************************************)
(* C2: after the subcommand, the groups appear in the order target, -g,    *)
(* -if, --no-imports, --build, -e, -e:b, -o, -o:b, -pr, -pr:b, -r, -s,     *)
(* -s:b, --update: the target tokens come first, every later token is a    *)
(* flag or the value of the flag just before it, the flags' group ranks    *)
(* never decrease from left to right, and `-if <install-folder>` occurs    *)
(* exactly once.                                                           *)
(***************************************************************************)
C2_GroupOrder ==
    result # None =>
        LET out == result[1]
            a == arguments[1]
            first == 2 + Len(Step1Tokens(a))
        IN  /\ \A i \in 2..(first - 1) :
                   out[i] = Step1Tokens(a)[i - 1] /\ out[i] \notin FlagTokens
            /\ out[first] \in FlagTokens
            /\ \A i \in first..Len(out) :
                   out[i] \notin FlagTokens =>
                       out[i - 1] \in FlagTokens \ {"--no-imports", "--update"}
            /\ \A i, j \in first..Len(out) :
                   (i < j /\ out[i] \in FlagTokens /\ out[j] \in FlagTokens) =>
                       GroupRank(out[i]) <= GroupRank(out[j])
            /\ Cardinality(Positions(out, "-if")) = 1
            /\ PairPositions(out, "-if", a.install_folder) = Positions(out, "-if")

C2_Witness ==
    /\ result # None
    /\ \A flag \in FlagTokens : Has(result[1], flag)

(***************************************************************************)
(* C3: one `--build` directive per build_configurations entry, in list     *)
(* order: the k-th `--build` token is followed by no value for All (the    *)
(* next token, if any, is a flag) and by never / missing / cascade /       *)
(* outdated / the pattern otherwise; the directives are contiguous;        *)
(* [Missing, Outdated] gives `--build missing --build outdated`.           *)
(***************************************************************************)
BuildValue(bc) ==
    CASE bc.kind = "Never" -> "never"
      [] bc.kind = "Missing" -> "missing"
      [] bc.kind = "Cascade" -> "cascade"
      [] bc.kind = "Outdated" -> "outdated"
      [] bc.kind = "Package" -> bc.pattern

\* C3: the --build tokens are one per entry, in list order, each with its value (none for All).
C3_BuildDirectives ==
    result # None =>
        LET out == result[1]
            bcs == arguments[1].build_configurations
            P == Positions(out, "--build")
        IN  /\ Cardinality(P) = Len(bcs)
            /\ \A k \in 1..Len(bcs) :
                   LET p == Nth(P, k)
                   IN  /\ IF bcs[k].kind = "All"
                          THEN p = Len(out) \/ out[p + 1] \in FlagTokens
                          ELSE p < Len(out) /\ out[p + 1] = BuildValue(bcs[k])
                       /\ k < Len(bcs) =>
                              Nth(P, k + 1) = p + (IF bcs[k].kind = "All" THEN 1 ELSE 2)
            /\ bcs = << [kind |-> "Missing"], [kind |-> "Outdated"] >> =>
                   \E i \in 1..(Len(out) - 3) :
                       SubSeq(out, i, i + 3) = << "--build", "missing", "--build", "outdated" >>

C3_Witness ==
    /\ result # None
    /\ arguments[1].build_configurations = << [kind |-> "All"], [kind |-> "Package", pattern |-> "zlib"] >>
    /\ Has(result[1], "-e")

(***************************************************************************)
(* C4: for each of the six map fields and each key of the map, exactly one *)
(* position holds the field's flag immediately followed by `key=value`,    *)
(* and the flag occurs as often as the map has keys, whatever order the    *)
(* map is iterated in.                                                     *)
(***************************************************************************)
C4_MapEntries ==
    result # None =>
        LET out == result[1]
            a == arguments[1]
        IN  \A f \in MapFields :
                /\ \A k \in DOMAIN a[f] :
                       Cardinality(PairPositions(out, MapFlag(f), k \o "=" \o a[f][k])) = 1
                /\ Cardinality(Positions(out, MapFlag(f))) = Cardinality(DOMAIN a[f])
                /\ \A i \in Positions(out, MapFlag(f)) :
                       \E k \in DOMAIN a[f] : out[i + 1] = k \o "=" \o a[f][k]

\* Both iteration orders of a two-key map are reached.
C4_Witness ==
    /\ result # None
    /\ DOMAIN arguments[1].settings = {"os", "arch"}
    /\ arguments[1].settings["os"] # arguments[1].settings["arch"]
    /\ \E i \in 1..(Len(result[1]) - 3) :
           /\ result[1][i] = "-s"
           /\ result[1][i + 1] = "os=" \o arguments[1].settings["os"]
           /\ result[1][i + 2] = "-s"
           /\ result[1][i + 3] = "arch=" \o arguments[1].settings["arch"]
    /\ arguments[1].envs # << >>

(***************************************************************************)
(* C5: the generators [g1,...,gn] appear as the contiguous run             *)
(* `-g g1 -g g2 ... -g gn` in list order, duplicates kept, and there is no *)
(* other `-g` token.                                                       *)
(***************************************************************************)
C5_GeneratorRun ==
    result # None =>
        LET out == result[1]
            gens == arguments[1].generators
            P == Positions(out, "-g")
        IN  /\ Cardinality(P) = Len(gens)
            /\ \A k \in 1..Len(gens) :
                   /\ out[Nth(P, k) + 1] = gens[k]
                   /\ k < Len(gens) => Nth(P, k + 1) = Nth(P, k) + 2

C5_Witness ==
    /\ result # None
    /\ arguments[1].generators = << "json", "cmake", "json" >>

(***************************************************************************)
(* C10: while the builder lives, and in the InstallArguments that build()  *)
(* returns, every field equals the argument of the last setter call for    *)
(* that field, or its default if the setter was never called; target and   *)
(* install folder are those given to new().  A profile, build profile or   *)
(* remote that was set is therefore present; and a configuration built     *)
(* with no setter call compiles to exactly one bare `--build`.             *)
(***************************************************************************)
ClaimedDefaults ==
    [ generators |-> << >>,
      no_imports |-> FALSE,
      build_configurations |-> << [kind |-> "All"] >>,
      envs |-> << >>,
      envs_build |-> << >>,
      options |-> << >>,
      options_build |-> << >>,
      profile |-> None,
      profile_build |-> None,
      remote |-> None,
      settings |-> << >>,
      settings_build |-> << >>,
      check_update |-> FALSE ]

LastSetOrDefault(f) ==
    IF last_set[f] = None
    THEN ClaimedDefaults[f]
    ELSE IF f \in {"profile", "profile_build", "remote"}
         THEN last_set[f]
         ELSE last_set[f][1]

FieldsAsLastSet(record) ==
    /\ DOMAIN record = DOMAIN last_set
    /\ \A f \in DOMAIN last_set : record[f] = LastSetOrDefault(f)

\* C10: every field is the last argument set for it, or its default.
C10_LastSetterWins ==
    /\ builder # None => FieldsAsLastSet(builder[1])
    /\ arguments # None => FieldsAsLastSet(arguments[1])
    /\ (result # None /\ ncalls = 0) =>
           LET out == result[1]
               P == Positions(out, "--build")
           IN  /\ Cardinality(P) = 1
               /\ \A p \in P : p = Len(out) \/ out[p + 1] \in FlagTokens

\* Three setter calls on two fields: one of them was set again.
C10_Witness ==
    /\ arguments # None
    /\ ncalls = 3
    /\ {f \in SetterNames : last_set[f] # None} = {"generators", "profile"}
    /\ arguments[1].generators = << "json" >>

(***************************************************************************)
(* Conan::get_remote_list (lib.rs 69-93).  The text is a sequence of       *)
(* characters: a one-character string, or "U+XXXX" for a character that   *)
(* a string constant cannot hold.                                          *)
(***************************************************************************)
\* The characters of the Unicode White_Space property: what \s matches and
\* \S does not in a pattern compiled by Regex::new (lib.rs 35).
WhiteSpace ==
    { "\t", "\n", "U+000B", "\f", "\r", " ", "U+0085", "U+00A0", "U+1680",
      "U+2000", "U+2001", "U+2002", "U+2003", "U+2004", "U+2005", "U+2006",
      "U+2007", "U+2008", "U+2009", "U+200A", "U+2028", "U+2029", "U+202F",
      "U+205F", "U+3000" }

IsWhitespace(c) == c \in WhiteSpace

LitTrue == << "T", "r", "u", "e" >>

LitFalse == << "F", "a", "l", "s", "e" >>

\* str::lines(): lines end at "\n" or "\r\n", the terminator is not part of
\* the line, and a final line needs no terminator.
RECURSIVE lines(_)
lines(text) ==
    IF text = << >>
    THEN << >>
    ELSE IF \E i \in 1..Len(text) : text[i] = "\n"
         THEN LET i == CHOOSE i \in 1..Len(text) :
                           text[i] = "\n" /\ \A j \in 1..(i - 1) : text[j] # "\n"
                  line == SubSeq(text, 1, i - 1)
                  stripped == IF line # << >> /\ line[Len(line)] = "\r"
                              THEN SubSeq(line, 1, Len(line) - 1)
                              ELSE line
              IN  << stripped >> \o lines(SubSeq(text, i + 1, Len(text)))
         ELSE << text >>

\* The last position of the run of non-whitespace characters starting at s.
RECURSIVE RunEnd(_, _)
RunEnd(line, s) ==
    IF s < Len(line) /\ ~IsWhitespace(line[s + 1]) THEN RunEnd(line, s + 1) ELSE s

StartsWithAt(line, p, word) ==
    /\ p + Len(word) - 1 <= Len(line)
    /\ SubSeq(line, p, p + Len(word) - 1) = word

\* A match of "(\S+) (\S+) (True|False)" that starts at position s.  A \S+
\* that is followed by a space ends where its run of non-whitespace ends,
\* so the greedy match is the only one.
MatchAt(line, s) ==
    IF s > Len(line) \/ IsWhitespace(line[s])
    THEN None
    ELSE LET e1 == RunEnd(line, s)
         IN  IF e1 + 2 > Len(line) \/ line[e1 + 1] # " " \/ IsWhitespace(line[e1 + 2])
             THEN None
             ELSE LET e2 == RunEnd(line, e1 + 2)
                  IN  IF e2 + 1 > Len(line) \/ line[e2 + 1] # " "
                      THEN None
                      ELSE IF StartsWithAt(line, e2 + 2, LitTrue)
                           THEN Some(<< SubSeq(line, s, e1), SubSeq(line, e1 + 2, e2), LitTrue >>)
                           ELSE IF StartsWithAt(line, e2 + 2, LitFalse)
                                THEN Some(<< SubSeq(line, s, e1), SubSeq(line, e1 + 2, e2), LitFalse >>)
                                ELSE None

\* CONAN_REMOTE_REGEX.captures(line): the leftmost match anywhere in the
\* line (the pattern has no anchors), as its three groups.
CONAN_REMOTE_REGEX_captures(line) ==
    IF \E s \in 1..Len(line) : MatchAt(line, s) # None
    THEN LET s == CHOOSE s \in 1..Len(line) :
                      MatchAt(line, s) # None /\ \A t \in 1..(s - 1) : MatchAt(line, t) = None
         IN  MatchAt(line, s)
    ELSE None

RemoteOf(groups) ==
    [name |-> groups[1], url |-> groups[2], verify_ssl |-> Some(groups[3] = LitTrue)]

\* The for loop of get_remote_list: `?` returns None at the first line
\* without a match; the groups of a match are always present.
RECURSIVE ParseLines(_, _)
ParseLines(remaining, parsed) ==
    IF remaining = << >>
    THEN Some(parsed)
    ELSE LET matched_remote == CONAN_REMOTE_REGEX_captures(Head(remaining))
         IN  IF matched_remote = None
             THEN None
             ELSE ParseLines(Tail(remaining), Append(parsed, RemoteOf(matched_remote[1])))

get_remote_list(output) ==
    IF ~output.utf8 THEN None ELSE ParseLines(lines(output.text), << >>)

(***************************************************************************)
(* Inputs of the parser: listings of up to MaxLines sample lines, ended by *)
(* "\n" or "\r\n", the last terminator optional; and single lines made of  *)
(* up to MaxLineChunks chunks.                                             *)
(***************************************************************************)
SampleLines ==
    { << "a", " ", "u", " " >> \o LitTrue,
      << "b", " ", "v", " " >> \o LitFalse,
      << "a", " ", "u" >>,
      << >>,
      << "a", "\t", "u", " " >> \o LitTrue,
      << "x", "\f", "a", " ", "u", " " >> \o LitTrue,
      << "x", "U+00A0", "b", " ", "v", " " >> \o LitFalse,
      << "x", " ", "a", " ", "u", " " >> \o LitTrue \o << " ", "j" >> }

LineChunks == { << "a" >>, << "b" >>, << " " >>, LitTrue, LitFalse }

LineTerminators == { << "\n" >>, << "\r", "\n" >> }

RECURSIVE Join(_, _, _)
Join(ls, terminator, last) ==
    IF ls = << >> THEN << >>
    ELSE IF Len(ls) = 1 THEN ls[1] \o (IF last THEN terminator ELSE << >>)
    ELSE ls[1] \o terminator \o Join(Tail(ls), terminator, last)

MultiLineTexts(n) ==
    { Join(ls, t, last) : ls \in SeqsUpTo(SampleLines, n),
                          t \in LineTerminators, last \in BOOLEAN }

SingleLineTexts(n) == { Concat(cs) : cs \in SeqsUpTo(LineChunks, n) }

\* Output that String::from_utf8 rejects, or decoded text.
InitRemote ==
    /\ \/ stdout = [utf8 |-> FALSE, text |-> << >>]
       \/ \E ls \in SeqsUpTo(SampleLines, MaxLines), t \in LineTerminators, last \in BOOLEAN :
              stdout = [utf8 |-> TRUE, text |-> Join(ls, t, last)]
       \/ \E cs \in SeqsUpTo(LineChunks, MaxLineChunks) :
              stdout = [utf8 |-> TRUE, text |-> Concat(cs)]
    /\ remote_list = None
    /\ spawned = None
    /\ IdleInstall /\ IdleBuildInfo /\ IdleCargo

CallGetRemoteList ==
    /\ remote_list' = Some(get_remote_list(stdout))
    /\ UNCHANGED <<stdout, spawned, installVars, buildInfoVars, cargoVars>>

NextRemote == CallGetRemoteList

SpecRemote == InitRemote /\ [][NextRemote]_vars

(***************************************************************************)
(* The grammar of a line of the listing, as the specification states it:   *)
(* the whole line is `<name> <url> <True|False>`, three whitespace-        *)
(* separated tokens, the third exactly True or False.                      *)
(***************************************************************************)
RECURSIVE Tokens(_)
Tokens(line) ==
    IF line = << >> THEN << >>
    ELSE IF IsWhitespace(line[1]) THEN Tokens(Tail(line))
    ELSE LET e == RunEnd(line, 1)
         IN  << SubSeq(line, 1, e) >> \o Tokens(SubSeq(line, e + 1, Len(line)))

MatchesGrammar(line) ==
    /\ Len(Tokens(line)) = 3
    /\ Tokens(line)[3] \in {LitTrue, LitFalse}

(***************************************************************************)
(* C6 (as claimed): the result is all-or-nothing.  If every line of the    *)
(* listing matches the grammar, the result is the list of one Remote per   *)
(* line, in line order, with verify_ssl Some(true) for the literal True    *)
(* and Some(false) for False; if any line fails to match, the result is    *)
(* absence.  The code decides a line by an unanchored search, so for the   *)
(* listing `x a u True j` it returns a list where the claim says absence,  *)
(* and for `a<tab>u True` it returns absence where the claim says a list.  *)
(***************************************************************************)
\* C6: Some(one Remote per line, in order) if every line matches the grammar, else None.
C6_AllOrNothing ==
    remote_list # None =>
        LET ret == remote_list[1]
            ls == lines(stdout.text)
        IN  IF stdout.utf8 /\ \A i \in 1..Len(ls) : MatchesGrammar(ls[i])
            THEN /\ ret # None
                 /\ Len(ret[1]) = Len(ls)
                 /\ \A i \in 1..Len(ls) :
                        LET tokens == Tokens(ls[i])
                        IN  /\ ret[1][i].name = tokens[1]
                            /\ ret[1][i].url = tokens[2]
                            /\ \/ tokens[3] = LitTrue /\ ret[1][i].verify_ssl = Some(TRUE)
                               \/ tokens[3] = LitFalse /\ ret[1][i].verify_ssl = Some(FALSE)
            ELSE ret = None

(***************************************************************************)
(* C7 (as claimed): a line is accepted only if the whole line is           *)
(* `<name> <url> <True|False>`, exactly three whitespace-separated tokens  *)
(* with the third exactly True or False, and the record's name and url are *)
(* the line's first and second tokens.  The pattern is not anchored, so    *)
(* the code accepts `x a u True j` and `a b Truea`.                        *)
(***************************************************************************)
\* C7: every accepted line is exactly `<name> <url> <True|False>`, name and url its first two tokens.
C7_WholeLineGrammar ==
    (remote_list # None /\ remote_list[1] # None) =>
        LET ret == remote_list[1][1]
            ls == lines(stdout.text)
        IN  \A i \in 1..Len(ret) :
                LET tokens == Tokens(ls[i])
                IN  /\ Len(tokens) = 3
                    /\ tokens[3] \in {LitTrue, LitFalse}
                    /\ ret[i].name = tokens[1]
                    /\ ret[i].url = tokens[2]

(***************************************************************************)
(* ConanBuildInfo::find_dependency (lib.rs 533-535).  A DependencyInfo is  *)
(* its name and version (no other field is read); the returned reference   *)
(* is the index of the element in `dependencies`.                          *)
(***************************************************************************)
DependencyNames == {"zlib", "Zlib", "openssl"}

DependencyVersions == {"1.2.11", "1.2.12"}

DependencyInfos == [name : DependencyNames, version : DependencyVersions]

QueryNames == DependencyNames \cup {"bzip2"}

\* The scan keeps the last match instead of stopping at the first.
RECURSIVE find_last(_, _, _)
find_last(deps, name, i) ==
    IF i < 1 THEN None
    ELSE IF deps[i].name = name THEN Some(i)
    ELSE find_last(deps, name, i - 1)

find_dependency_last_match(deps, name) == find_last(deps, name, Len(deps))

\* Iterator::find: the elements are tried from the front, the first one
\* the predicate accepts is returned.
RECURSIVE find(_, _, _)
find(deps, name, i) ==
    IF i > Len(deps) THEN None
    ELSE IF deps[i].name = name THEN Some(i)
    ELSE find(deps, name, i + 1)

find_dependency(deps, name) == find(deps, name, 1)

InitBuildInfo ==
    /\ \E deps \in SeqsUpTo(DependencyInfos, MaxDependencies) : dependencies = deps
    /\ found = None
    /\ IdleInstall /\ IdleRemote /\ IdleCargo

CallFindDependency ==
    \E name \in QueryNames :
        /\ found' = Some([name |-> name, ret |-> find_dependency(dependencies, name)])
        /\ UNCHANGED <<dependencies, installVars, remoteVars, cargoVars>>

NextBuildInfo == CallFindDependency

SpecBuildInfo == InitBuildInfo /\ [][NextBuildInfo]_vars

(***************************************************************************)
(* C8: every call leaves the dependency list as it was and returns the     *)
(* first element, in list order, whose name equals the queried name        *)
(* exactly, and None if and only if no element has that name.              *)
(***************************************************************************)
FirstMatchReturned ==
    found # None =>
        LET name == found[1].name
            ret == found[1].ret
        IN  /\ ret = None <=> \A i \in 1..Len(dependencies) : dependencies[i].name # name
            /\ ret # None =>
                   /\ ret[1] \in 1..Len(dependencies)
                   /\ dependencies[ret[1]].name = name
                   /\ \A j \in 1..(ret[1] - 1) : dependencies[j].name # name

\* C8: each call leaves the list unchanged and returns the first exact match, or None.
C8_FirstMatch == [][dependencies' = dependencies /\ FirstMatchReturned']_vars

\* Two dependencies named zlib after one named Zlib: the first zlib is found.
C8_Witness ==
    /\ Len(dependencies) = 3
    /\ dependencies[1].name = "Zlib"
    /\ dependencies[2].name = "zlib"
    /\ dependencies[3].name = "zlib"
    /\ dependencies[2].version # dependencies[3].version
    /\ found = Some([name |-> "zlib", ret |-> Some(2)])

(***************************************************************************)
(* cargo.rs: the platform vocabulary.                                      *)
(***************************************************************************)
CargoTokens ==
    {"windows", "linux", "macos", "android", "ios", "freebsd",
     "powerpc", "powerpc64", "arm", "aarch64", "debug", "release",
     "Windows", "DEBUG", "Release", "unknown_os", "x86_64"}

\* HashMap::get(key).unwrap_or(&key)
GetOr(table, key) == IF key \in DOMAIN table THEN table[key] ELSE key

cargo_os_to_conan_os(os_name) == GetOr(os_table, os_name)

cargo_arch_to_conan_arch(arch_name) == GetOr(arch_table, arch_name)

\* The match ignores the case of the profile name.
cargo_profile_to_conan_build_type_ignoring_case(profile_name) ==
    CASE profile_name \in {"debug", "DEBUG"} -> "Debug"
      [] profile_name \in {"release", "Release"} -> "Release"
      [] OTHER -> profile_name

cargo_profile_to_conan_build_type(profile_name) ==
    CASE profile_name = "debug" -> "Debug"
      [] profile_name = "release" -> "Release"
      [] OTHER -> profile_name

InitCargo ==
    /\ os_table = CARGO_OS_TO_CONAN_OS
    /\ arch_table = CARGO_ARCH_TO_CONAN_ARCH
    /\ os_call = None
    /\ arch_call = None
    /\ profile_call = None
    /\ IdleInstall /\ IdleRemote /\ IdleBuildInfo

CallCargoOsToConanOs ==
    \E os_name \in CargoTokens :
        /\ os_call' = Some([input |-> os_name, output |-> cargo_os_to_conan_os(os_name)])
        /\ UNCHANGED <<os_table, arch_table, arch_call, profile_call,
                       installVars, remoteVars, buildInfoVars>>

CallCargoArchToConanArch ==
    \E arch_name \in CargoTokens :
        /\ arch_call' = Some([input |-> arch_name, output |-> cargo_arch_to_conan_arch(arch_name)])
        /\ UNCHANGED <<os_table, arch_table, os_call, profile_call,
                       installVars, remoteVars, buildInfoVars>>

CallCargoProfileToConanBuildType ==
    \E profile_name \in CargoTokens :
        /\ profile_call' = Some([input |-> profile_name,
                                 output |-> cargo_profile_to_conan_build_type(profile_name)])
        /\ UNCHANGED <<os_table, arch_table, os_call, arch_call,
                       installVars, remoteVars, buildInfoVars>>

NextCargo ==
    \/ CallCargoOsToConanOs
    \/ CallCargoArchToConanArch
    \/ CallCargoProfileToConanBuildType

SpecCargo == InitCargo /\ [][NextCargo]_vars

(***************************************************************************)
(* C9: each mapper returns the table value for a table key and its input   *)
(* unchanged for any other token, also one that differs from a key only in *)
(* case; the tables are the same after any sequence of lookups.            *)
(***************************************************************************)
ClaimedOs ==
    { <<"windows", "Windows">>, <<"linux", "Linux">>, <<"macos", "Macos">>,
      <<"android", "Android">>, <<"ios", "iOS">>, <<"freebsd", "FreeBSD">> }

ClaimedArch ==
    { <<"powerpc", "ppc32">>, <<"powerpc64", "ppc64">>, <<"arm", "armv7">>,
      <<"aarch64", "armv8">> }

ClaimedProfile == { <<"debug", "Debug">>, <<"release", "Release">> }

AsClaimed(call, pairs) ==
    call # None =>
        IF \E p \in pairs : p[1] = call[1].input
        THEN << call[1].input, call[1].output >> \in pairs
        ELSE call[1].output = call[1].input

TableIs(table, pairs) ==
    /\ DOMAIN table = {p[1] : p \in pairs}
    /\ \A p \in pairs : table[p[1]] = p[2]

\* C9: table value for a key, the input itself otherwise; the tables never change.
C9_TotalWithIdentityFallback ==
    /\ AsClaimed(os_call, ClaimedOs)
    /\ AsClaimed(arch_call, ClaimedArch)
    /\ AsClaimed(profile_call, ClaimedProfile)
    /\ TableIs(os_table, ClaimedOs)
    /\ TableIs(arch_table, ClaimedArch)

C9_Witness ==
    /\ os_call = Some([input |-> "Windows", output |-> "Windows"])
    /\ arch_call = Some([input |-> "aarch64", output |-> "armv8"])
    /\ profile_call = Some([input |-> "DEBUG", output |-> "DEBUG"])

(***************************************************************************)
(* Conan::add_remote (lib.rs 95-119) and Conan::remove_remote (lib.rs      *)
(* 121-130).  A Command starts with no arguments; only arg/args calls add  *)
(* to it.  spawn().unwrap() panics if the tool cannot be started;          *)
(* otherwise the call returns wait().is_ok().                              *)
(***************************************************************************)
RemoteUrls == {"https://center.conan.io", "http://localhost:9300"}

Remotes == [name : RemoteNames, url : RemoteUrls, verify_ssl : {None, Some(TRUE), Some(FALSE)}]

RemoteIndexes == {None, Some(0), Some(7), Some(10), Some(2147483647)}

SpawnOutcomes == {"spawn_failed", "wait_ok", "wait_failed"}

Digit(d) ==
    CASE d = 0 -> "0" [] d = 1 -> "1" [] d = 2 -> "2" [] d = 3 -> "3" [] d = 4 -> "4"
      [] d = 5 -> "5" [] d = 6 -> "6" [] d = 7 -> "7" [] d = 8 -> "8" [] d = 9 -> "9"

\* u32::to_string: the decimal digits, no sign, no leading zero.
RECURSIVE to_string(_)
to_string(n) == IF n < 10 THEN Digit(n) ELSE to_string(n \div 10) \o Digit(n % 10)

\* The vector `arguments` that add_remote builds (lib.rs 97-116).
add_remote_arguments(remote_value, index, force) ==
    << "remote", "add" >>
    \o (IF index # None THEN << "-i", to_string(index[1]) >> ELSE << >>)
    \o (IF force THEN << "--force" >> ELSE << >>)
    \o << remote_value.name, remote_value.url >>
    \o (CASE remote_value.verify_ssl = Some(TRUE) -> << "True" >>
          [] remote_value.verify_ssl = Some(FALSE) -> << "False" >>
          [] remote_value.verify_ssl = None -> << >>)

\* The arguments of the Command that add_remote spawns: `command` is
\* Command::new(&self.path) (lib.rs 96) and no arg or args call is made on
\* it before command.spawn() (lib.rs 118); `arguments` is dropped unused.
add_remote_command_args(remote_value, index, force) == << >>

\* The arguments of the Command that remove_remote spawns (lib.rs 122-125).
remove_remote_command_args(remote_name) == << "remote", "remove", remote_name >>

\* The return value: a panic has none, otherwise Some(wait().is_ok()).
SpawnReturn(outcome) == IF outcome = "spawn_failed" THEN None ELSE Some(outcome = "wait_ok")

InitProcess ==
    /\ stdout = [utf8 |-> TRUE, text |-> << >>]
    /\ remote_list = None
    /\ spawned = None
    /\ IdleInstall /\ IdleBuildInfo /\ IdleCargo

CallAddRemote ==
    \E remote_value \in Remotes, index \in RemoteIndexes, force \in BOOLEAN,
       outcome \in SpawnOutcomes :
        /\ spawned' = Some([ op |-> "add_remote",
                             input |-> << remote_value, index, force >>,
                             built |-> add_remote_arguments(remote_value, index, force),
                             started |-> outcome # "spawn_failed",
                             args |-> add_remote_command_args(remote_value, index, force),
                             ret |-> SpawnReturn(outcome) ])
        /\ UNCHANGED <<stdout, remote_list, installVars, buildInfoVars, cargoVars>>

CallRemoveRemote ==
    \E remote_name \in RemoteNames, outcome \in SpawnOutcomes :
        /\ spawned' = Some([ op |-> "remove_remote",
                             input |-> << remote_name >>,
                             built |-> remove_remote_command_args(remote_name),
                             started |-> outcome # "spawn_failed",
                             args |-> remove_remote_command_args(remote_name),
                             ret |-> SpawnReturn(outcome) ])
        /\ UNCHANGED <<stdout, remote_list, installVars, buildInfoVars, cargoVars>>

NextProcess ==
    \/ CallAddRemote
    \/ CallRemoveRemote

SpecProcess == InitProcess /\ [][NextProcess]_vars

(***************************************************************************)
(* C11: the process that add_remote starts receives the vector `remote     *)
(* add`, then `-i <index>` only if an index is given, then `--force` only  *)
(* if force is true, then the remote's name, then its url, then `True` or  *)
(* `False` only if verify_ssl is set: the vector add_remote built, never   *)
(* an empty argument list.  The code builds that vector and spawns the     *)
(* Command without it.                                                     *)
(***************************************************************************)
ClaimedAddRemoteVector(remote_value, index, force) ==
    LET opt(present, tokens) == IF present THEN tokens ELSE << >>
    IN  << "remote", "add" >>
        \o opt(index # None, << "-i", to_string(IF index = None THEN 0 ELSE index[1]) >>)
        \o opt(force, << "--force" >>)
        \o << remote_value.name, remote_value.url >>
        \o opt(remote_value.verify_ssl = Some(TRUE), << "True" >>)
        \o opt(remote_value.verify_ssl = Some(FALSE), << "False" >>)

\* C11: a started add_remote process received the claimed vector, which is the vector built.
C11_ProcessReceivesVector ==
    (spawned # None /\ spawned[1].op = "add_remote" /\ spawned[1].started) =>
        /\ spawned[1].args = ClaimedAddRemoteVector(spawned[1].input[1], spawned[1].input[2],
                                                    spawned[1].input[3])
        /\ spawned[1].args = spawned[1].built
        /\ spawned[1].args # << >>

=============================================================================
